---- MODULE Spec2Model ----
(***************************************************************************)
(* The streaming session of arsnova-client (src/src/client.rs):            *)
(* Client<LoggedIn>::on_feedback_changed with its three FeedbackHandler    *)
(* shapes, Client<LoggedIn>::register_feedback_receiver, the two bounded   *)
(* tokio mpsc channels around them, and the peer's socket.                 *)
(*                                                                         *)
(* One step of the engine is one branch of the tokio select! of the loop   *)
(* (or one setup step).  A select! branch whose pattern `Some(..)` does    *)
(* not match the value its future resolved to is disabled for that         *)
(* select! call and the other branches are awaited; the macro's disabled   *)
(* flags are the variables readDisabled and voteDisabled.                  *)
(*                                                                         *)
(* Specifications:                                                         *)
(*   Spec      the streaming call with its consumer, caller and peer       *)
(*   FairSpec  Spec with the scheduling of the loop                        *)
(*   TaskSpec  the two-way session with a caller that suspends on a full   *)
(*             vote channel, as two tasks or as one                        *)
(*   ApiSpec   the life of the Client value: new, guest_login, logout and  *)
(*             the REST calls made on it                                   *)
(*   FnSpec    the functions of the crate applied to values of their       *)
(*             argument types                                              *)
(***************************************************************************)
EXTENDS Integers, Sequences, FiniteSets, TLC

VARIABLES
    op,           \* the streaming call: "on_feedback_changed" | "register_feedback_receiver"
    handler,      \* FeedbackHandler variant: "Fn" | "Sender" | "SenderReceiver" ("None" for register)
    pc,           \* position of the call: resolve, open, connect, subscribe, select, send, returned
    result,       \* value the call returned: "none" while running, else a ClientError
    exitCause,    \* which return of the code was taken
    setupLog,     \* the setup steps performed with their outcomes, in order
    wire,         \* frames handed to write.send, in order
    lastWriteOk,  \* outcome of the last write.send: "none" | "ok" | "failed"
    sock,         \* inbound half of the socket: "unopened" | "open" | "ended" | "failed"
    readLog,      \* snapshots decoded from the frames read, in read order
    readDisabled, \* select!: the read branch resolved to None in this select! call
    voteDisabled, \* select!: the vote branch resolved to None in this select! call
    pending,      \* the snapshot tx.send(..).await is suspended on (<<>> if none)
    inCh,         \* buffer of the snapshot channel (Sender<Feedback> -> Receiver<Feedback>)
    inTxOpen,     \* the engine still holds the Sender<Feedback>
    inRxOpen,     \* the consumer still holds the Receiver<Feedback>
    sawEnd,       \* the consumer's recv() returned None
    handed,       \* snapshots the engine handed over (callback called / tx.send returned Ok)
    sendErrs,     \* number of tx.send calls that returned Err (receiver dropped)
    delivered,    \* snapshots the consumer received from the channel, in order
    outCh,        \* buffer of the vote channel (Sender<FeedbackValue> -> Receiver<FeedbackValue>)
    outTxOpen,    \* the caller still holds a Sender<FeedbackValue>
    outRxOpen,    \* the Receiver<FeedbackValue> is alive
    enq,          \* votes the caller enqueued, in order
    elapsed,      \* seconds the sleep of the current select! call has been running
    idleIntervals, \* sleeps that ran out since the loop was entered; -1 once a frame or a vote was taken
    client,       \* tasks of the caller's program: "two_tasks" | "one_task"
    votePending,  \* the vote out_tx.send(..).await is suspended on (<<>> if none)
    cred,         \* the Client value the program holds: state, api_url, token
    call          \* the last call made on the Client API with its result

vars == <<op, handler, pc, result, exitCause, setupLog, wire, lastWriteOk, sock,
          readLog, readDisabled, voteDisabled, pending, inCh, inTxOpen, inRxOpen, sawEnd,
          handed, sendErrs, delivered, outCh, outTxOpen, outRxOpen, enq, elapsed,
          idleIntervals, client, votePending, cred, call>>

\* the variables of the streaming call
streamVars == <<op, handler, pc, result, exitCause, setupLog, wire, lastWriteOk, sock,
                readLog, readDisabled, voteDisabled, pending, inCh, inTxOpen, inRxOpen,
                sawEnd, handed, sendErrs, delivered, outCh, outTxOpen, outRxOpen, enq,
                elapsed, idleIntervals, client, votePending>>

----------------------------------------------------------------------------
\* Bounds of the model.

\* pieces between blank lines of the longest frame decoded
MaxParts == 2

\* feedback-changed frames the peer sends at most
MaxReads == 3
\* votes the caller enqueues at most
MaxVotes == 2
\* keep-alive frames written at most
MaxKeepAlives == 1
\* capacity of the snapshot channel
InCap == 1
\* capacity of the vote channel
OutCap == 2
\* seconds of one step of the clock
TickSecs == 10

\* Duration::from_secs(15) of the sleep in every select!
KeepAliveSecs == 15

----------------------------------------------------------------------------
\* Values.

Min(a, b) == IF a < b THEN a ELSE b

IsPrefix(s, t) == Len(s) <= Len(t) /\ SubSeq(t, 1, Len(s)) = s

\* enum FeedbackValue
FeedbackValue == {"VeryGood", "A", "Good", "B", "Bad", "C", "VeryBad", "D"}

\* the values the caller of the model submits
VoteInputs == {"VeryGood", "D"}

\* Variant of into_u8: the discriminant of the variant, `self as u8`.
into_u8Discriminant(v) ==
    CASE v = "VeryGood" -> 0
      [] v = "A" -> 1
      [] v = "Good" -> 2
      [] v = "B" -> 3
      [] v = "Bad" -> 4
      [] v = "C" -> 5
      [] v = "VeryBad" -> 6
      [] v = "D" -> 7

\* FeedbackValue::into_u8
into_u8(v) ==
    CASE v \in {"VeryGood", "A"} -> 0
      [] v \in {"Good", "B"} -> 1
      [] v \in {"Bad", "C"} -> 2
      [] v \in {"VeryBad", "D"} -> 3

\* Feedback::from_values
from_values(values) ==
    [very_good |-> values[1], good |-> values[2], bad |-> values[3], very_bad |-> values[4]]

\* WsFeedbackPayload::get_feedback
get_feedback(payload) == from_values(payload.values)

\* largest value of a u16
U16Max == 65535

\* The frames read.next() can yield.  text: Message::is_text; marker: what the
\* text starts with; parts: the pieces of the text between blank lines,
\* raw.split("\n\n"), each told by what is left of it once the "\0" are
\* removed and it is trimmed: json, whether that is a JSON object with a
\* string "type" and an array of integers "payload.values"; type and values,
\* those two members.
Part(json, type, values) == [json |-> json, type |-> type, values |-> values]

\* the STOMP command and header lines
HeaderPart == Part(FALSE, "", <<>>)

FeedbackChangedFrame(n) ==
    [text |-> TRUE, marker |-> "MESSAGE",
     parts |-> <<HeaderPart, Part(TRUE, "FeedbackChanged", <<n, n + 1, n + 2, n + 3>>)>>]

NoiseFrames ==
    { [text |-> FALSE, marker |-> "", parts |-> <<HeaderPart>>],
      [text |-> TRUE, marker |-> "CONNECTED", parts |-> <<HeaderPart, HeaderPart>>],
      [text |-> TRUE, marker |-> "MESSAGE", parts |-> <<HeaderPart, HeaderPart>>],
      [text |-> TRUE, marker |-> "MESSAGE",
       parts |-> <<HeaderPart, Part(TRUE, "Other", <<9, 9, 9, 9>>)>>] }

\* serde_json::from_str::<WsFeedbackBody>(text): values is a [u16; 4]
WsFeedbackBody_from_str(text) ==
    IF /\ text.json
       /\ Len(text.values) = 4
       /\ \A i \in 1..Len(text.values) : text.values[i] \in 0..U16Max
    THEN <<[body_type |-> text.type, payload |-> [values |-> text.values]]>>
    ELSE <<>>

\* WsFeedbackMessage::parse: Ok(body) or Err(()), from parts.last()
parse(frame) == WsFeedbackBody_from_str(frame.parts[Len(frame.parts)])

\* Variant of Decode: the "type" of the body is not looked at.
DecodeAnyType(frame) ==
    IF frame.text /\ frame.marker = "MESSAGE"
    THEN LET msg == parse(frame)
         IN IF msg # <<>> THEN <<get_feedback(msg[1].payload)>> ELSE <<>>
    ELSE <<>>

\* The snapshot handle_incoming_feedback_with_fn / _with_sender extract from a
\* frame: <<feedback>>, or <<>> when the frame is dropped.
Decode(frame) ==
    IF frame.text /\ frame.marker = "MESSAGE"
    THEN LET msg == parse(frame)
         IN IF msg # <<>> /\ msg[1].body_type = "FeedbackChanged"
            THEN <<get_feedback(msg[1].payload)>>
            ELSE <<>>
    ELSE <<>>

\* Frames written to the socket.  nul: the text ends with the STOMP frame
\* terminator "\0"; value: the "value" of the payload of a SEND frame.
ConnectFrame == [kind |-> "CONNECT", value |-> 0, nul |-> TRUE]
\* WsSubscribeMessage::new(room_id): room is the room of the destination
WsSubscribeMessage_new(room_id) ==
    [kind |-> "SUBSCRIBE", value |-> 0, nul |-> TRUE, room |-> room_id]
\* WsCreateFeedbackMessage::new
SendFrame(v) == [kind |-> "SEND", value |-> into_u8(v), nul |-> TRUE]
\* Variant of KeepAliveFrame: the heart-beat is written as a terminated frame.
KeepAliveFrameTerminated == [kind |-> "KEEPALIVE", value |-> 0, nul |-> TRUE, text |-> "\n"]
\* Message::Text("\n".to_string())
KeepAliveFrame == [kind |-> "KEEPALIVE", value |-> 0, nul |-> FALSE, text |-> "\n"]

OfKind(w, k) == SelectSeq(w, LAMBDA f : f.kind = k)

SeqMap(F(_), s) == [i \in 1..Len(s) |-> F(s[i])]

HasInChannel == handler \in {"Sender", "SenderReceiver"}
\* Variant of OwnsVoteRx: every loop has the vote branch.
OwnsVoteRxEveryHandler == op \in {"on_feedback_changed", "register_feedback_receiver"}
\* the call holds a Receiver<FeedbackValue>: its select! has the branch
\* `Some(value) = rx.recv()`
OwnsVoteRx == handler = "SenderReceiver" \/ op = "register_feedback_receiver"

Streaming == pc \in {"select", "send"}

----------------------------------------------------------------------------
\* The Client value and its REST operations.

\* segments of the longest token the login service hands out
MaxSegments == 4

\* Result<T, ClientError>, and a panic of the calling thread
Ok(v) == [tag |-> "Ok", value |-> v]
Err(e) == [tag |-> "Err", value |-> e]
Panic(why) == [tag |-> "panic", value |-> <<why>>]

\* enum ClientError
ConnectionError == <<"ConnectionError">>
LoginError == <<"LoginError">>
UrlError == <<"UrlError">>
ParserError(msg) == <<"ParserError", msg>>
RoomNotFoundError(short_id) == <<"RoomNotFoundError", short_id>>

\* A token is the sequence of its segments, token.split('.').  A segment is
\* told by what the decoders make of it: enc, whether it is base64 without or
\* with padding; utf8, whether the bytes it encodes are UTF-8; json, whether
\* that text is a JSON object; sub, the "sub" member of the object if it has one.
ClaimSegment(sub) == [enc |-> "base64_no_pad", utf8 |-> TRUE, json |-> TRUE, sub |-> <<sub>>]

\* the empty string: base64 of no bytes
EmptySegment == [enc |-> "base64_no_pad", utf8 |-> TRUE, json |-> FALSE, sub |-> <<>>]

Segments ==
    { ClaimSegment("user-1"),
      [enc |-> "base64_padded", utf8 |-> TRUE, json |-> TRUE, sub |-> <<"user-1">>],
      [enc |-> "base64_no_pad", utf8 |-> TRUE, json |-> TRUE, sub |-> <<>>],
      [enc |-> "base64_no_pad", utf8 |-> FALSE, json |-> FALSE, sub |-> <<>>],
      EmptySegment }

Tokens == UNION { [1..n -> Segments] : n \in 1..MaxSegments }

\* Option<String> of the field token: <<>> is None, <<t>> is Some(t)
TokenOptions == {<<>>} \cup { <<t>> : t \in Tokens }

\* the program holds no Client
NoClient == [state |-> "none", api_url |-> "", token |-> <<>>]

\* the Client<LoggedIn> the streaming calls are made on
LoggedInClient ==
    [state |-> "LoggedIn", api_url |-> "https://arsnova.example/api",
     token |-> << <<EmptySegment, ClaimSegment("user-1"), EmptySegment>> >>]

\* A call of the API: the function, its arguments, and once it is done its
\* result and the HTTP requests it sent.
ToCall(fn, args) == [fn |-> fn, args |-> args, done |-> FALSE, result |-> <<>>, requests |-> 0]

Called(fn, args, res, requests) ==
    [fn |-> fn, args |-> args, done |-> TRUE, result |-> res, requests |-> requests]

NoCall == Called("none", <<>>, <<>>, 0)

\* api_url.into_url(): Some(url.to_string()) of what parses as a URL
UrlInputs == {"https://arsnova.example", "http://localhost:8080/api", "arsnova.example"}

into_url(u) ==
    CASE u = "https://arsnova.example" -> <<"https://arsnova.example/">>
      [] u = "http://localhost:8080/api" -> <<"http://localhost:8080/api">>
      [] OTHER -> <<>>

\* Client::new(api_url); built: reqwest::Client::builder()..build() succeeded
new(api_url, built) ==
    IF ~built THEN Err(ConnectionError)
    ELSE IF into_url(api_url) = <<>> THEN Err(UrlError)
    ELSE Ok([state |-> "LoggedOut", api_url |-> into_url(api_url)[1], token |-> <<>>])

\* the tokens the login service of the model hands out
LoginTokens ==
    { <<EmptySegment, ClaimSegment("user-1"), EmptySegment>>,
      <<ClaimSegment("user-1"), EmptySegment>>,
      <<EmptySegment>> }

\* What POST {api_url}/auth/login/guest comes back with: sent, whether send()
\* returned Ok; token, the token of the body if it is a LoginResponse.
LoginResponses ==
    { [sent |-> FALSE, token |-> <<>>], [sent |-> TRUE, token |-> <<>>] }
    \cup { [sent |-> TRUE, token |-> <<t>>] : t \in LoginTokens }

\* Client<LoggedOut>::guest_login(self)
guest_login(self, res) ==
    IF ~res.sent THEN Err(ConnectionError)
    ELSE IF res.token = <<>> THEN Err(LoginError)
    ELSE Ok([state |-> "LoggedIn", api_url |-> self.api_url, token |-> <<res.token[1]>>])

\* Variant of logout: the token stays in the Client.
logoutKeepToken(self) ==
    [state |-> "LoggedOut", api_url |-> self.api_url, token |-> self.token]

\* Client<LoggedIn>::logout(self)
logout(self) ==
    [state |-> "LoggedOut", api_url |-> self.api_url, token |-> <<>>]

\* STANDARD_NO_PAD.decode(part): the bytes, or <<>> on Err
decode(part) ==
    IF part.enc = "base64_no_pad"
    THEN <<[utf8 |-> part.utf8, json |-> part.json, sub |-> part.sub]>>
    ELSE <<>>

\* String::from_utf8(d).unwrap_or_default()
from_utf8_or_default(d) ==
    IF d.utf8 THEN [json |-> d.json, sub |-> d.sub] ELSE [json |-> FALSE, sub |-> <<>>]

\* serde_json::from_str::<TokenClaim>(text): the claim, or <<>> on Err
TokenClaim_from_str(text) ==
    IF text.json /\ text.sub # <<>> THEN <<[sub |-> text.sub[1]]>> ELSE <<>>

\* self.token.clone().unwrap_or_default().split('.')
token_parts(self) == IF self.token = <<>> THEN <<EmptySegment>> ELSE self.token[1]

\* Client<LoggedIn>::get_user_id: token_parts.nth(1) is the second segment
get_user_id(self) ==
    LET parts == token_parts(self)
    IN IF Len(parts) < 2
       THEN Err(ParserError("Unparsable token"))
       ELSE LET d == decode(parts[2])
            IN IF d = <<>>
               THEN Err(ParserError("Unparsable token: decode"))
               ELSE LET claim == TokenClaim_from_str(from_utf8_or_default(d[1]))
                    IN IF claim = <<>>
                       THEN Err(ParserError("Unparsable token claim"))
                       ELSE Ok(claim[1].sub)

\* the short ids the program asks for
ShortIds == {"12345678", "87654321"}

\* MembershipResponse of the body, as the service sends it
Membership == [id |-> "room-1", short_id |-> "12345678", name |-> "Room"]

\* What POST {api_url}/room/~{short_id}/request-membership comes back with:
\* sent, whether send() returned Ok; status; body, the MembershipResponse the
\* body decodes to, <<>> if it does not.
RoomResponses ==
    {[sent |-> FALSE, status |-> 0, body |-> <<>>]}
    \cup { [sent |-> TRUE, status |-> st, body |-> b] :
             st \in {200, 201, 401, 404, 500}, b \in {<<>>, <<Membership>>} }

\* Variant of get_room_info: the short id of the error is the one of the body.
get_room_infoIdOfBody(self, short_id, res) ==
    IF self.token = <<>> THEN Panic("Option::unwrap() on a None value")
    ELSE IF ~res.sent THEN Err(ConnectionError)
    ELSE IF res.status = 200
    THEN IF res.body = <<>>
         THEN Err(ParserError("error decoding response body"))
         ELSE Ok([id |-> res.body[1].id, short_id |-> res.body[1].short_id,
                  name |-> res.body[1].name, description |-> ""])
    ELSE IF res.status = 404
    THEN Err(RoomNotFoundError(IF res.body = <<>> THEN "" ELSE res.body[1].short_id))
    ELSE Err(ConnectionError)

\* Client<LoggedIn>::get_room_info
get_room_info(self, short_id, res) ==
    IF self.token = <<>> THEN Panic("Option::unwrap() on a None value")
    ELSE IF ~res.sent THEN Err(ConnectionError)
    ELSE IF res.status = 200
    THEN IF res.body = <<>>
         THEN Err(ParserError("error decoding response body"))
         ELSE Ok([id |-> res.body[1].id, short_id |-> res.body[1].short_id,
                  name |-> res.body[1].name, description |-> ""])
    ELSE IF res.status = 404 THEN Err(RoomNotFoundError(short_id))
    ELSE Err(ConnectionError)

\* What GET {api_url}/room/{id}/survey comes back with; body: the [u16; 4] the
\* body decodes to, <<>> if it does not.
SurveyResponses ==
    { [sent |-> FALSE, status |-> 0, body |-> <<>>],
      [sent |-> TRUE, status |-> 200, body |-> << <<3, 5, 0, 1>> >>],
      [sent |-> TRUE, status |-> 200, body |-> <<>>],
      [sent |-> TRUE, status |-> 404, body |-> <<>>],
      [sent |-> TRUE, status |-> 500, body |-> <<>>] }

\* Client<LoggedIn>::get_feedback
Client_get_feedback(self, short_id, res, survey) ==
    LET room_info == get_room_info(self, short_id, res)
    IN IF room_info.tag # "Ok" THEN room_info
       ELSE IF ~survey.sent THEN Err(ConnectionError)
       ELSE IF survey.status = 200
       THEN IF survey.body = <<>>
            THEN Err(ParserError("error decoding response body"))
            ELSE Ok(from_values(survey.body[1]))
       ELSE IF survey.status = 404 THEN Err(RoomNotFoundError(short_id))
       ELSE Err(ConnectionError)

\* What GET {api_url}/_view/room/summary?ids={id} comes back with; body: the
\* Vec<SummaryResponse> the body decodes to (the stats of each), <<>> if it
\* does not.
SummaryResponses ==
    { [sent |-> FALSE, status |-> 0, body |-> <<>>],
      [sent |-> TRUE, status |-> 200, body |-> << <<"stats-1">> >>],
      [sent |-> TRUE, status |-> 200, body |-> << <<>> >>],
      [sent |-> TRUE, status |-> 200, body |-> <<>>],
      [sent |-> TRUE, status |-> 404, body |-> <<>>],
      [sent |-> TRUE, status |-> 500, body |-> <<>>] }

\* Client<LoggedIn>::get_room_stats
get_room_stats(self, short_id, res, summary) ==
    LET room_info == get_room_info(self, short_id, res)
    IN IF room_info.tag # "Ok" THEN room_info
       ELSE IF ~summary.sent THEN Err(ConnectionError)
       ELSE IF summary.status = 200
       THEN IF summary.body = <<>>
            THEN Err(ParserError("error decoding response body"))
            ELSE IF summary.body[1] = <<>>
            THEN Panic("Option::unwrap() on a None value")
            ELSE Ok(summary.body[1][1])
       ELSE IF summary.status = 404 THEN Err(RoomNotFoundError(short_id))
       ELSE Err(ConnectionError)

\* The first statement of on_feedback_changed and of
\* register_feedback_receiver, `self.get_room_info(short_id).await?`: what
\* the call returns there, or that it goes on to open the socket.
resolve_room(self, short_id, res) ==
    LET room_info == get_room_info(self, short_id, res)
    IN IF room_info.tag # "Ok" THEN room_info
       ELSE [tag |-> "goes_on", value |-> <<room_info.value.id>>]

\* HTTP requests a call sent whose first request is that of get_room_info
\* and whose result is r; second: it has a request of its own after it.
RequestsSent(self, res, second) ==
    IF self.token = <<>> THEN 0
    ELSE IF second /\ get_room_info(self, "", res).tag = "Ok" THEN 2
    ELSE 1

\* room_info of the streaming calls past their first statement: the RoomInfo
\* of the one room the service of the model knows
room_info ==
    get_room_info(LoggedInClient, Membership.short_id,
                  [sent |-> TRUE, status |-> 200, body |-> <<Membership>>]).value

\* Variant of SubscribeFrame: the subscription names the short id of the room.
SubscribeFrameOfShortId == WsSubscribeMessage_new(room_info.short_id)

\* WsSubscribeMessage::new(&room_info.id)
SubscribeFrame == WsSubscribeMessage_new(room_info.id)

----------------------------------------------------------------------------
\* Initial state: the call was just made; the caller created both channels
\* (examples/arsnova-client-tui.rs, lines 65-66) and gave the engine the ends
\* the FeedbackHandler variant holds.

Calls ==
    { <<"on_feedback_changed", "Fn">>, <<"on_feedback_changed", "Sender">>,
      <<"on_feedback_changed", "SenderReceiver">>, <<"register_feedback_receiver", "None">> }

\* The call c was just made by a program whose use of the channels is tasks.
Start(c, tasks) ==
    /\ op = c[1]
    /\ handler = c[2]
    /\ inTxOpen = (c[2] \in {"Sender", "SenderReceiver"})
    /\ inRxOpen = (c[2] \in {"Sender", "SenderReceiver"})
    /\ client = tasks
    /\ pc = IF c[1] = "none" THEN "idle" ELSE "resolve"
    /\ result = "none"
    /\ exitCause = "none"
    /\ setupLog = <<>>
    /\ wire = <<>>
    /\ lastWriteOk = "none"
    /\ sock = "unopened"
    /\ readLog = <<>>
    /\ readDisabled = FALSE
    /\ voteDisabled = FALSE
    /\ pending = <<>>
    /\ inCh = <<>>
    /\ sawEnd = FALSE
    /\ handed = <<>>
    /\ sendErrs = 0
    /\ delivered = <<>>
    /\ outCh = <<>>
    /\ outTxOpen = TRUE
    /\ outRxOpen = TRUE
    /\ enq = <<>>
    /\ elapsed = 0
    /\ idleIntervals = 0
    /\ votePending = <<>>

\* The program of the example: the snapshots are received by one future
\* (create_ui), the votes are sent by a task of their own (lines 85-113).
Init ==
    /\ \E c \in Calls : Start(c, "two_tasks")
    /\ cred = LoggedInClient
    /\ call = NoCall

----------------------------------------------------------------------------
\* Variant of Return: the call whose loop ended by `break` returns Ok(()).
ReturnOkWhenStreamEnds(res, cause) ==
    /\ pc' = "returned"
    /\ result' = IF cause = "read_error" THEN "Ok" ELSE res
    /\ exitCause' = cause
    /\ inTxOpen' = FALSE
    /\ outRxOpen' = IF OwnsVoteRx THEN FALSE ELSE outRxOpen
    /\ outCh' = IF OwnsVoteRx THEN <<>> ELSE outCh
    /\ pending' = <<>>
    /\ readDisabled' = FALSE
    /\ voteDisabled' = FALSE
    /\ elapsed' = 0

\* The call returns `res`; everything the call owns is dropped: the
\* Sender<Feedback> of the handler and, where the call holds it, the
\* Receiver<FeedbackValue> with whatever it still buffers.
Return(res, cause) ==
    /\ pc' = "returned"
    /\ result' = res
    /\ exitCause' = cause
    /\ inTxOpen' = FALSE
    /\ outRxOpen' = IF OwnsVoteRx THEN FALSE ELSE outRxOpen
    /\ outCh' = IF OwnsVoteRx THEN <<>> ELSE outCh
    /\ pending' = <<>>
    /\ readDisabled' = FALSE
    /\ voteDisabled' = FALSE
    /\ elapsed' = 0

\* The loop comes round: a new select! call, with a new sleep and no branch
\* disabled.
NextSelect ==
    /\ pc' = "select"
    /\ readDisabled' = FALSE
    /\ voteDisabled' = FALSE
    /\ elapsed' = 0

\* what a step that maps its failure to ConnectionError logs
Outcome(ok) == IF ok THEN "ok" ELSE "ConnectionError"

\* write.send(Message::Text(frame)).await with outcome ok
Write(frame, ok) ==
    /\ wire' = Append(wire, frame)
    /\ lastWriteOk' = IF ok THEN "ok" ELSE "failed"

----------------------------------------------------------------------------
\* Setup.

\* self.get_room_info(short_id).await?
ResolveRoom ==
    /\ pc = "resolve"
    /\ \E outcome \in {"ok", "RoomNotFoundError", "ConnectionError", "ParserError"} :
          /\ setupLog' = Append(setupLog, <<"resolve", outcome>>)
          /\ IF outcome = "ok"
             THEN /\ pc' = "open"
                  /\ UNCHANGED <<result, exitCause, inTxOpen, outRxOpen, outCh, pending,
                                 readDisabled, voteDisabled, elapsed>>
             ELSE Return(outcome, "resolve")
    /\ UNCHANGED <<op, handler, wire, lastWriteOk, sock, readLog, inCh, inRxOpen,
                   sawEnd, handed, sendErrs, delivered, outTxOpen, enq>>
    /\ UNCHANGED <<idleIntervals, client, votePending, cred, call>>

\* connect_async(..).await.map_err(|_| ConnectionError)? and socket.split();
\* register_feedback_receiver drops the read half at once.
OpenSocket ==
    /\ pc = "open"
    /\ \E ok \in BOOLEAN :
          /\ setupLog' = Append(setupLog, <<"open", Outcome(ok)>>)
          /\ IF ok
             THEN /\ pc' = "connect"
                  /\ sock' = IF op = "register_feedback_receiver" THEN "dropped" ELSE "open"
                  /\ UNCHANGED <<result, exitCause, inTxOpen, outRxOpen, outCh, pending,
                                 readDisabled, voteDisabled, elapsed>>
             ELSE /\ Return("ConnectionError", "open")
                  /\ UNCHANGED sock
    /\ UNCHANGED <<op, handler, wire, lastWriteOk, readLog, inCh, inRxOpen,
                   sawEnd, handed, sendErrs, delivered, outTxOpen, enq>>
    /\ UNCHANGED <<idleIntervals, client, votePending, cred, call>>

\* Variant of WriteConnect: the outcome of the CONNECT write is not looked at
\* and SUBSCRIBE is written in any case.
WriteConnectIgnoreFailure ==
    /\ pc = "connect"
    /\ \E ok \in BOOLEAN :
          /\ setupLog' = Append(setupLog, <<"connect", Outcome(ok)>>)
          /\ Write(ConnectFrame, ok)
    /\ pc' = "subscribe"
    /\ UNCHANGED <<result, exitCause, inTxOpen, outRxOpen, outCh, pending,
                   readDisabled, voteDisabled, elapsed>>
    /\ UNCHANGED <<op, handler, sock, readLog, inCh, inRxOpen,
                   sawEnd, handed, sendErrs, delivered, outTxOpen, enq>>
    /\ UNCHANGED <<idleIntervals, client, votePending, cred, call>>

\* write.send(CONNECT).await.is_ok(), else the final Err(ConnectionError)
WriteConnect ==
    /\ pc = "connect"
    /\ \E ok \in BOOLEAN :
          /\ setupLog' = Append(setupLog, <<"connect", Outcome(ok)>>)
          /\ Write(ConnectFrame, ok)
          /\ IF ok
             THEN /\ pc' = "subscribe"
                  /\ UNCHANGED <<result, exitCause, inTxOpen, outRxOpen, outCh, pending,
                                 readDisabled, voteDisabled, elapsed>>
             ELSE Return("ConnectionError", "connect")
    /\ UNCHANGED <<op, handler, sock, readLog, inCh, inRxOpen,
                   sawEnd, handed, sendErrs, delivered, outTxOpen, enq>>
    /\ UNCHANGED <<idleIntervals, client, votePending, cred, call>>

\* match write.send(SUBSCRIBE).await { Ok(_) => loop .., Err(_) => Err(ConnectionError) }
WriteSubscribe ==
    /\ pc = "subscribe"
    /\ \E ok \in BOOLEAN :
          /\ setupLog' = Append(setupLog, <<"subscribe", Outcome(ok)>>)
          /\ Write(SubscribeFrame, ok)
          /\ IF ok
             THEN /\ NextSelect
                  /\ UNCHANGED <<result, exitCause, inTxOpen, outRxOpen, outCh, pending>>
             ELSE Return("ConnectionError", "subscribe")
    /\ UNCHANGED <<op, handler, sock, readLog, inCh, inRxOpen,
                   sawEnd, handed, sendErrs, delivered, outTxOpen, enq>>
    /\ UNCHANGED <<idleIntervals, client, votePending, cred, call>>

----------------------------------------------------------------------------
\* The multiplexing loop.

\* Variant of TxSend: an Err of tx.send ends the loop.
TxSendBreakOnErr(fb) ==
    IF ~inRxOpen
    THEN /\ sendErrs' = sendErrs + 1
         /\ pc' = "returned"
         /\ readDisabled' = FALSE
         /\ voteDisabled' = FALSE
         /\ elapsed' = 0
         /\ UNCHANGED <<inCh, handed, pending>>
    ELSE IF Len(inCh) < InCap
    THEN /\ inCh' = Append(inCh, fb)
         /\ handed' = Append(handed, fb)
         /\ NextSelect
         /\ UNCHANGED <<sendErrs, pending>>
    ELSE /\ pc' = "send"
         /\ pending' = <<fb>>
         /\ readDisabled' = FALSE
         /\ voteDisabled' = FALSE
         /\ elapsed' = 0
         /\ UNCHANGED <<inCh, handed, sendErrs>>

\* Variant of TxSend: try_send instead of send, a snapshot that finds the
\* buffer full is dropped.
TxSendDropWhenFull(fb) ==
    IF ~inRxOpen
    THEN /\ sendErrs' = sendErrs + 1
         /\ NextSelect
         /\ UNCHANGED <<inCh, handed, pending>>
    ELSE IF Len(inCh) < InCap
    THEN /\ inCh' = Append(inCh, fb)
         /\ handed' = Append(handed, fb)
         /\ NextSelect
         /\ UNCHANGED <<sendErrs, pending>>
    ELSE /\ NextSelect
         /\ UNCHANGED <<inCh, handed, sendErrs, pending>>

\* let _ = tx.send(feedback).await in handle_incoming_feedback_with_sender:
\* Err at once when the receiver is gone (ignored), a push when the buffer has
\* room, else the call suspends with the snapshot in hand.
TxSend(fb) ==
    IF ~inRxOpen
    THEN /\ sendErrs' = sendErrs + 1
         /\ NextSelect
         /\ UNCHANGED <<inCh, handed, pending>>
    ELSE IF Len(inCh) < InCap
    THEN /\ inCh' = Append(inCh, fb)
         /\ handed' = Append(handed, fb)
         /\ NextSelect
         /\ UNCHANGED <<sendErrs, pending>>
    ELSE /\ pc' = "send"
         /\ pending' = <<fb>>
         /\ readDisabled' = FALSE
         /\ voteDisabled' = FALSE
         /\ elapsed' = 0
         /\ UNCHANGED <<inCh, handed, sendErrs>>

\* f(&feedback) in handle_incoming_feedback_with_fn
CallFn(fb) ==
    /\ handed' = Append(handed, fb)
    /\ NextSelect
    /\ UNCHANGED <<inCh, sendErrs, pending>>

\* What the peer can send next: a frame the client has no interest in, or,
\* up to MaxReads times, the next feedback-changed frame.
InboundFrames ==
    NoiseFrames \cup
    (IF Len(readLog) < MaxReads THEN {FeedbackChangedFrame(Len(readLog) + 1)} ELSE {})

\* Some(next) = read.next() with next = Ok(msg): the handler of the variant
\* runs on the frame.
ReadFrame ==
    /\ pc = "select"
    /\ op = "on_feedback_changed"
    /\ sock = "open"
    /\ ~readDisabled
    /\ \E frame \in InboundFrames :
          LET d == Decode(frame)
          IN IF d = <<>>
             THEN /\ NextSelect
                  /\ UNCHANGED <<readLog, inCh, handed, sendErrs, pending>>
             ELSE /\ readLog' = Append(readLog, d[1])
                  /\ IF handler = "Fn" THEN CallFn(d[1]) ELSE TxSend(d[1])
    /\ UNCHANGED <<op, handler, result, exitCause, setupLog, wire, lastWriteOk, sock,
                   inTxOpen, inRxOpen, sawEnd, delivered, outCh, outTxOpen, outRxOpen, enq>>
    /\ idleIntervals' = -1
    /\ UNCHANGED <<client, votePending, cred, call>>

\* Variant of SendResume: the suspended send is abandoned when the loop goes on.
SendResumeLose ==
    /\ pc = "send"
    /\ inRxOpen
    /\ Len(inCh) < InCap
    /\ pending' = <<>>
    /\ NextSelect
    /\ UNCHANGED <<op, handler, result, exitCause, setupLog, wire, lastWriteOk, sock, readLog, inCh, handed, inTxOpen, inRxOpen, sawEnd, sendErrs, delivered,
                   outCh, outTxOpen, outRxOpen, enq>>
    /\ UNCHANGED <<idleIntervals, client, votePending, cred, call>>

\* tx.send(feedback).await resumes: the consumer made room.
SendResume ==
    /\ pc = "send"
    /\ inRxOpen
    /\ Len(inCh) < InCap
    /\ inCh' = Append(inCh, pending[1])
    /\ handed' = Append(handed, pending[1])
    /\ pending' = <<>>
    /\ NextSelect
    /\ UNCHANGED <<op, handler, result, exitCause, setupLog, wire, lastWriteOk, sock, readLog, inTxOpen, inRxOpen, sawEnd, sendErrs, delivered, outCh,
                   outTxOpen, outRxOpen, enq>>
    /\ UNCHANGED <<idleIntervals, client, votePending, cred, call>>

\* tx.send(feedback).await resumes with Err: the consumer dropped the receiver.
SendFail ==
    /\ pc = "send"
    /\ ~inRxOpen
    /\ sendErrs' = sendErrs + 1
    /\ pending' = <<>>
    /\ NextSelect
    /\ UNCHANGED <<op, handler, result, exitCause, setupLog, wire, lastWriteOk, sock, readLog, inCh, inTxOpen, inRxOpen, sawEnd, handed, delivered, outCh,
                   outTxOpen, outRxOpen, enq>>
    /\ UNCHANGED <<idleIntervals, client, votePending, cred, call>>

\* Variant of ReadError: the Err arm does not break.
ReadErrorContinue ==
    /\ pc = "select"
    /\ op = "on_feedback_changed"
    /\ sock = "failed"
    /\ ~readDisabled
    /\ sock' = "ended"
    /\ NextSelect
    /\ UNCHANGED <<op, handler, result, exitCause, setupLog, wire, lastWriteOk, readLog, pending, inCh, inTxOpen, inRxOpen, sawEnd, handed, sendErrs,
                   delivered, outCh, outTxOpen, outRxOpen, enq>>
    /\ idleIntervals' = -1
    /\ UNCHANGED <<client, votePending, cred, call>>

\* Some(next) = read.next() with next = Err(_): break, then Err(ConnectionError).
\* The stream yields the error once and is ended after it.
ReadError ==
    /\ pc = "select"
    /\ op = "on_feedback_changed"
    /\ sock = "failed"
    /\ ~readDisabled
    /\ sock' = "ended"
    /\ Return("ConnectionError", "read_error")
    /\ UNCHANGED <<op, handler, setupLog, wire, lastWriteOk, readLog, inCh,
                   inRxOpen, sawEnd, handed, sendErrs, delivered, outTxOpen, enq>>
    /\ idleIntervals' = -1
    /\ UNCHANGED <<client, votePending, cred, call>>

\* read.next() resolves to None (the stream ended): `Some(next)` does not
\* match, select! disables the branch and awaits the others.
ReadNone ==
    /\ pc = "select"
    /\ op = "on_feedback_changed"
    /\ sock = "ended"
    /\ ~readDisabled
    /\ readDisabled' = TRUE
    /\ UNCHANGED <<op, handler, pc, result, exitCause, setupLog, wire, lastWriteOk, sock,
                   readLog, voteDisabled, pending, inCh, inTxOpen, inRxOpen, sawEnd,
                   handed, sendErrs, delivered, outCh, outTxOpen, outRxOpen, enq, elapsed>>
    /\ UNCHANGED <<idleIntervals, client, votePending, cred, call>>

\* Variant of RecvVote: after a failed write the next vote is taken from the
\* channel and not written.
RecvVoteSkipAfterFailure ==
    /\ pc = "select"
    /\ OwnsVoteRx
    /\ ~voteDisabled
    /\ outCh # <<>>
    /\ outCh' = Tail(outCh)
    /\ IF lastWriteOk = "failed"
       THEN UNCHANGED <<wire, lastWriteOk>>
       ELSE \E ok \in BOOLEAN : Write(SendFrame(Head(outCh)), ok)
    /\ NextSelect
    /\ UNCHANGED <<op, handler, result, exitCause, setupLog, sock, readLog, pending,
                   inCh, inTxOpen, inRxOpen, sawEnd, handed, sendErrs, delivered,
                   outTxOpen, outRxOpen, enq>>
    /\ idleIntervals' = -1
    /\ UNCHANGED <<client, votePending, cred, call>>

\* Variant of RecvVote: the vote branch is polled also while the hand-over of
\* a snapshot is suspended.
RecvVoteWhileSuspended ==
    /\ Streaming
    /\ OwnsVoteRx
    /\ ~voteDisabled
    /\ outCh # <<>>
    /\ outCh' = Tail(outCh)
    /\ \E ok \in BOOLEAN : Write(SendFrame(Head(outCh)), ok)
    /\ IF pc = "send"
       THEN UNCHANGED <<pc, readDisabled, voteDisabled, elapsed>>
       ELSE NextSelect
    /\ UNCHANGED <<op, handler, result, exitCause, setupLog, sock, readLog, pending,
                   inCh, inTxOpen, inRxOpen, sawEnd, handed, sendErrs, delivered,
                   outTxOpen, outRxOpen, enq>>
    /\ idleIntervals' = -1
    /\ UNCHANGED <<client, votePending, cred, call>>

\* Some(value) = rx.recv(): build the SEND frame of the vote and write it,
\* let _ = write.send(..).await
RecvVote ==
    /\ pc = "select"
    /\ OwnsVoteRx
    /\ ~voteDisabled
    /\ outCh # <<>>
    /\ outCh' = Tail(outCh)
    /\ \E ok \in BOOLEAN : Write(SendFrame(Head(outCh)), ok)
    /\ NextSelect
    /\ UNCHANGED <<op, handler, result, exitCause, setupLog, sock, readLog, pending,
                   inCh, inTxOpen, inRxOpen, sawEnd, handed, sendErrs, delivered,
                   outTxOpen, outRxOpen, enq>>
    /\ idleIntervals' = -1
    /\ UNCHANGED <<client, votePending, cred, call>>

\* Variant of RecvVoteNone: the end of the vote channel ends the call.
RecvVoteNoneReturns ==
    /\ pc = "select"
    /\ OwnsVoteRx
    /\ ~voteDisabled
    /\ outCh = <<>>
    /\ ~outTxOpen
    /\ Return("ConnectionError", "vote_closed")
    /\ UNCHANGED <<op, handler, setupLog, wire, lastWriteOk, sock, readLog, inCh,
                   inRxOpen, sawEnd, handed, sendErrs, delivered, outTxOpen, enq>>
    /\ UNCHANGED <<idleIntervals, client, votePending, cred, call>>

\* rx.recv() resolves to None (every vote sender dropped, buffer empty):
\* `Some(value)` does not match, select! disables the branch.
RecvVoteNone ==
    /\ pc = "select"
    /\ OwnsVoteRx
    /\ ~voteDisabled
    /\ outCh = <<>>
    /\ ~outTxOpen
    /\ voteDisabled' = TRUE
    /\ UNCHANGED <<op, handler, pc, result, exitCause, setupLog, wire, lastWriteOk, sock,
                   readLog, readDisabled, pending, inCh, inTxOpen, inRxOpen, sawEnd,
                   handed, sendErrs, delivered, outCh, outTxOpen, outRxOpen, enq, elapsed>>
    /\ UNCHANGED <<idleIntervals, client, votePending, cred, call>>

KeepAlivesWritten == Len(OfKind(wire, "KEEPALIVE"))

\* Time passes while the select! call waits.
Tick ==
    /\ pc = "select"
    /\ elapsed < KeepAliveSecs
    /\ elapsed' = Min(elapsed + TickSecs, KeepAliveSecs)
    /\ UNCHANGED <<op, handler, pc, result, exitCause, setupLog, wire, lastWriteOk, sock,
                   readLog, readDisabled, voteDisabled, pending, inCh, inTxOpen,
                   inRxOpen, sawEnd, handed, sendErrs, delivered, outCh, outTxOpen,
                   outRxOpen, enq>>
    /\ idleIntervals' = IF idleIntervals >= 0 /\ elapsed' = KeepAliveSecs
                        THEN idleIntervals + 1 ELSE idleIntervals
    /\ UNCHANGED <<client, votePending, cred, call>>

\* Variant of KeepAlive: a failed keep-alive write ends the call.
KeepAliveFatal ==
    /\ pc = "select"
    /\ elapsed = KeepAliveSecs
    /\ KeepAlivesWritten < MaxKeepAlives
    /\ \E ok \in BOOLEAN :
          /\ Write(KeepAliveFrame, ok)
          /\ IF ok
             THEN /\ NextSelect
                  /\ UNCHANGED <<result, exitCause, inTxOpen, outRxOpen, outCh, pending>>
             ELSE Return("ConnectionError", "write_error")
    /\ UNCHANGED <<op, handler, setupLog, sock, readLog,
                   inCh, inRxOpen, sawEnd, handed, sendErrs, delivered,
                   outTxOpen, enq>>
    /\ UNCHANGED <<idleIntervals, client, votePending, cred, call>>

\* _ = tokio::time::sleep(Duration::from_secs(15)): let _ = write.send("\n").await
KeepAlive ==
    /\ pc = "select"
    /\ elapsed = KeepAliveSecs
    /\ KeepAlivesWritten < MaxKeepAlives
    /\ \E ok \in BOOLEAN : Write(KeepAliveFrame, ok)
    /\ NextSelect
    /\ UNCHANGED <<op, handler, result, exitCause, setupLog, sock, readLog, pending,
                   inCh, inTxOpen, inRxOpen, sawEnd, handed, sendErrs, delivered, outCh,
                   outTxOpen, outRxOpen, enq>>
    /\ UNCHANGED <<idleIntervals, client, votePending, cred, call>>

----------------------------------------------------------------------------
\* The consumer of the snapshot channel.

\* The code that receives the snapshots can run: it is a task (or future) of
\* its own, or the one task of the program is not suspended in out_tx.send.
TaskFree == client = "two_tasks" \/ votePending = <<>>

\* rx.recv().await yields Some(feedback)
ConsumerRecv ==
    /\ TaskFree
    /\ inRxOpen
    /\ inCh # <<>>
    /\ delivered' = Append(delivered, Head(inCh))
    /\ inCh' = Tail(inCh)
    /\ UNCHANGED <<op, handler, pc, result, exitCause, setupLog, wire, lastWriteOk, sock,
                   readLog, readDisabled, voteDisabled, pending, inTxOpen, inRxOpen,
                   sawEnd, handed, sendErrs, outCh, outTxOpen, outRxOpen, enq, elapsed>>
    /\ UNCHANGED <<idleIntervals, client, votePending, cred, call>>

\* rx.recv().await yields None: the buffer is empty and the sender is dropped
ConsumerRecvNone ==
    /\ TaskFree
    /\ inRxOpen
    /\ inCh = <<>>
    /\ HasInChannel
    /\ ~inTxOpen
    /\ ~sawEnd
    /\ sawEnd' = TRUE
    /\ UNCHANGED <<op, handler, pc, result, exitCause, setupLog, wire, lastWriteOk, sock,
                   readLog, readDisabled, voteDisabled, pending, inCh, inTxOpen,
                   inRxOpen, handed, sendErrs, delivered, outCh, outTxOpen, outRxOpen, enq,
                   elapsed>>
    /\ UNCHANGED <<idleIntervals, client, votePending, cred, call>>

\* The consumer drops its Receiver<Feedback>; what it buffers is dropped with it.
ConsumerClose ==
    /\ TaskFree
    /\ inRxOpen
    /\ inRxOpen' = FALSE
    /\ inCh' = <<>>
    /\ UNCHANGED <<op, handler, pc, result, exitCause, setupLog, wire, lastWriteOk, sock,
                   readLog, readDisabled, voteDisabled, pending, inTxOpen, sawEnd,
                   handed, sendErrs, delivered, outCh, outTxOpen, outRxOpen, enq, elapsed>>
    /\ UNCHANGED <<idleIntervals, client, votePending, cred, call>>

----------------------------------------------------------------------------
\* The caller's side of the vote channel.

\* out_tx.send(value).await returns Ok
CallerVote ==
    /\ votePending = <<>>
    /\ outTxOpen
    /\ outRxOpen
    /\ Len(outCh) < OutCap
    /\ Len(enq) < MaxVotes
    /\ \E v \in VoteInputs :
          /\ outCh' = Append(outCh, v)
          /\ enq' = Append(enq, v)
    /\ UNCHANGED <<op, handler, pc, result, exitCause, setupLog, wire, lastWriteOk, sock,
                   readLog, readDisabled, voteDisabled, pending, inCh, inTxOpen,
                   inRxOpen, sawEnd, handed, sendErrs, delivered, outTxOpen, outRxOpen,
                   elapsed>>
    /\ UNCHANGED <<idleIntervals, client, votePending, cred, call>>

\* The caller drops every Sender<FeedbackValue>.
CallerDropVotes ==
    /\ votePending = <<>>
    /\ outTxOpen
    /\ outTxOpen' = FALSE
    /\ UNCHANGED <<op, handler, pc, result, exitCause, setupLog, wire, lastWriteOk, sock,
                   readLog, readDisabled, voteDisabled, pending, inCh, inTxOpen,
                   inRxOpen, sawEnd, handed, sendErrs, delivered, outCh, outRxOpen, enq,
                   elapsed>>
    /\ UNCHANGED <<idleIntervals, client, votePending, cred, call>>

\* out_tx.send(value).await finds the buffer full and suspends.
CallerSuspend ==
    /\ votePending = <<>>
    /\ outTxOpen
    /\ outRxOpen
    /\ Len(outCh) = OutCap
    /\ Len(enq) <= MaxVotes
    /\ \E v \in VoteInputs : votePending' = <<v>>
    /\ UNCHANGED <<op, handler, pc, result, exitCause, setupLog, wire, lastWriteOk, sock,
                   readLog, readDisabled, voteDisabled, pending, inCh, inTxOpen,
                   inRxOpen, sawEnd, handed, sendErrs, delivered, outCh, outTxOpen,
                   outRxOpen, enq, elapsed, idleIntervals, client, cred, call>>

\* The suspended out_tx.send(value).await resumes: the engine took a vote.
CallerResume ==
    /\ votePending # <<>>
    /\ outRxOpen
    /\ Len(outCh) < OutCap
    /\ outCh' = Append(outCh, votePending[1])
    /\ enq' = Append(enq, votePending[1])
    /\ votePending' = <<>>
    /\ UNCHANGED <<op, handler, pc, result, exitCause, setupLog, wire, lastWriteOk, sock,
                   readLog, readDisabled, voteDisabled, pending, inCh, inTxOpen,
                   inRxOpen, sawEnd, handed, sendErrs, delivered, outTxOpen, outRxOpen,
                   elapsed, idleIntervals, client, cred, call>>

\* The suspended out_tx.send(value).await resumes with Err: the call returned
\* and dropped the receiver (let _ = ..).
CallerResumeErr ==
    /\ votePending # <<>>
    /\ ~outRxOpen
    /\ votePending' = <<>>
    /\ UNCHANGED <<op, handler, pc, result, exitCause, setupLog, wire, lastWriteOk, sock,
                   readLog, readDisabled, voteDisabled, pending, inCh, inTxOpen,
                   inRxOpen, sawEnd, handed, sendErrs, delivered, outCh, outTxOpen,
                   outRxOpen, enq, elapsed, idleIntervals, client, cred, call>>

----------------------------------------------------------------------------
\* The peer.

\* The peer closes the socket with a closing handshake: the read stream ends
\* (read.next() yields None).
PeerClose ==
    /\ sock = "open"
    /\ pc # "returned"
    /\ sock' = "ended"
    /\ UNCHANGED <<op, handler, pc, result, exitCause, setupLog, wire, lastWriteOk,
                   readLog, readDisabled, voteDisabled, pending, inCh, inTxOpen,
                   inRxOpen, sawEnd, handed, sendErrs, delivered, outCh, outTxOpen,
                   outRxOpen, enq, elapsed>>
    /\ UNCHANGED <<idleIntervals, client, votePending, cred, call>>

\* The connection breaks or the peer violates the protocol: the next read
\* yields Some(Err(_)).
PeerReset ==
    /\ sock = "open"
    /\ pc # "returned"
    /\ sock' = "failed"
    /\ UNCHANGED <<op, handler, pc, result, exitCause, setupLog, wire, lastWriteOk,
                   readLog, readDisabled, voteDisabled, pending, inCh, inTxOpen,
                   inRxOpen, sawEnd, handed, sendErrs, delivered, outCh, outTxOpen,
                   outRxOpen, enq, elapsed>>
    /\ UNCHANGED <<idleIntervals, client, votePending, cred, call>>

----------------------------------------------------------------------------

Next ==
    \/ ResolveRoom
    \/ OpenSocket
    \/ WriteConnect
    \/ WriteSubscribe
    \/ ReadFrame
    \/ SendResume
    \/ SendFail
    \/ ReadError
    \/ ReadNone
    \/ RecvVote
    \/ RecvVoteNone
    \/ Tick
    \/ KeepAlive
    \/ ConsumerRecv
    \/ ConsumerRecvNone
    \/ ConsumerClose
    \/ CallerVote
    \/ CallerDropVotes
    \/ PeerClose
    \/ PeerReset

Spec == Init /\ [][Next]_vars

\* The two-way session (FeedbackHandler::SenderReceiver) with the caller's
\* sends that find the vote channel full, used by a program of either shape:
\* "two_tasks" as in the example, or "one_task", a single task that receives
\* the snapshots and sends the votes.
TaskInit ==
    /\ \E tasks \in {"two_tasks", "one_task"} :
          Start(<<"on_feedback_changed", "SenderReceiver">>, tasks)
    /\ cred = LoggedInClient
    /\ call = NoCall

TaskNext ==
    \/ Next
    \/ CallerSuspend
    \/ CallerResume
    \/ CallerResumeErr

TaskSpec == TaskInit /\ [][TaskNext]_vars

----------------------------------------------------------------------------
\* The life of the Client value: one step is one call of the API on the
\* Client the program holds.  guest_login and logout take self by value: the
\* program holds what they return, and nothing after an Err.

New ==
    /\ \E api_url \in UrlInputs, built \in BOOLEAN :
          LET r == new(api_url, built)
          IN /\ call' = Called("new", <<api_url, built>>, r, 0)
             /\ cred' = IF r.tag = "Ok" THEN r.value ELSE NoClient
    /\ UNCHANGED streamVars

GuestLogin ==
    /\ cred.state = "LoggedOut"
    /\ \E res \in LoginResponses :
          LET r == guest_login(cred, res)
          IN /\ call' = Called("guest_login", <<cred, res>>, r, 1)
             /\ cred' = IF r.tag = "Ok" THEN r.value ELSE NoClient
    /\ UNCHANGED streamVars

Logout ==
    /\ cred.state = "LoggedIn"
    /\ call' = Called("logout", <<cred>>, Ok(logout(cred)), 0)
    /\ cred' = logout(cred)
    /\ UNCHANGED streamVars

GetUserId ==
    /\ cred.state = "LoggedIn"
    /\ call' = Called("get_user_id", <<cred>>, get_user_id(cred), 0)
    /\ UNCHANGED <<streamVars, cred>>

GetRoomInfo ==
    /\ cred.state = "LoggedIn"
    /\ \E short_id \in ShortIds, res \in RoomResponses :
          call' = Called("get_room_info", <<cred, short_id, res>>,
                         get_room_info(cred, short_id, res), 1)
    /\ UNCHANGED <<streamVars, cred>>

ApiInit ==
    /\ Start(<<"none", "None">>, "two_tasks")
    /\ cred = NoClient
    /\ call = NoCall

ApiNext ==
    \/ New
    \/ GuestLogin
    \/ Logout
    \/ GetUserId
    \/ GetRoomInfo

ApiSpec == ApiInit /\ [][ApiNext]_vars

----------------------------------------------------------------------------
\* The functions of the crate applied to values of their argument types.

ValueInputs ==
    { <<3, 5, 0, 1>>, <<0, 0, 0, 0>>, <<1, 2, 3>>, <<1, 2, 3, 4, 5>>,
      <<U16Max + 1, 0, 0, 0>>, <<U16Max, U16Max, U16Max, U16Max>> }

PartInputs ==
    {HeaderPart} \cup { Part(TRUE, ty, v) : ty \in {"FeedbackChanged", "Other"}, v \in ValueInputs }

FrameInputs ==
    { [text |-> t, marker |-> m, parts |-> ps] :
        t \in BOOLEAN, m \in {"MESSAGE", "CONNECTED"},
        ps \in UNION { [1..n -> PartInputs] : n \in 1..MaxParts } }

\* handle_incoming_feedback_with_fn / _with_sender on a frame
DecodeFrame ==
    /\ call.fn = "Decode"
    /\ ~call.done
    /\ call' = Called("Decode", call.args, Decode(call.args[1]), 0)
    /\ UNCHANGED <<streamVars, cred>>

\* a Client<LoggedIn> value whose field token is tok
LoggedInWith(tok) ==
    [state |-> "LoggedIn", api_url |-> "https://arsnova.example/api", token |-> tok]

\* the Client<LoggedIn> values the calls with requests are made on
SelfInputs == { LoggedInWith(tok) : tok \in {<<>>} \cup { <<t>> : t \in LoginTokens } }

ApplyGetUserId ==
    /\ call.fn = "get_user_id"
    /\ ~call.done
    /\ call' = Called(call.fn, call.args, get_user_id(call.args[1]), 0)
    /\ UNCHANGED <<streamVars, cred>>

ApplyGetRoomInfo ==
    /\ call.fn = "get_room_info"
    /\ ~call.done
    /\ call' = Called(call.fn, call.args,
                      get_room_info(call.args[1], call.args[2], call.args[3]),
                      RequestsSent(call.args[1], call.args[3], FALSE))
    /\ UNCHANGED <<streamVars, cred>>

ApplyGetFeedback ==
    /\ call.fn = "get_feedback"
    /\ ~call.done
    /\ call' = Called(call.fn, call.args,
                      Client_get_feedback(call.args[1], call.args[2], call.args[3], call.args[4]),
                      RequestsSent(call.args[1], call.args[3], TRUE))
    /\ UNCHANGED <<streamVars, cred>>

ApplyGetRoomStats ==
    /\ call.fn = "get_room_stats"
    /\ ~call.done
    /\ call' = Called(call.fn, call.args,
                      get_room_stats(call.args[1], call.args[2], call.args[3], call.args[4]),
                      RequestsSent(call.args[1], call.args[3], TRUE))
    /\ UNCHANGED <<streamVars, cred>>

\* on_feedback_changed and register_feedback_receiver up to their first `?`
ApplyStreaming ==
    /\ call.fn \in {"on_feedback_changed", "register_feedback_receiver"}
    /\ ~call.done
    /\ call' = Called(call.fn, call.args,
                      resolve_room(call.args[1], call.args[2], call.args[3]),
                      RequestsSent(call.args[1], call.args[3], FALSE))
    /\ UNCHANGED <<streamVars, cred>>

\* Feedback::count_votes: the additions are u16 additions, left to right.  A
\* sum above U16Max panics in a build with overflow checks (the default of
\* the dev profile) and wraps in a build without (the default of release).
count_votes(self, overflow_checks) ==
    LET sum == self.very_good + self.good + self.bad + self.very_bad
    IN IF sum <= U16Max THEN Ok(sum)
       ELSE IF overflow_checks THEN Panic("attempt to add with overflow")
       ELSE Ok(sum % (U16Max + 1))

\* counts of the snapshots count_votes is applied to
CountInputs == {0, 1, (U16Max + 1) \div 2, U16Max}

ApplyCountVotes ==
    /\ call.fn = "count_votes"
    /\ ~call.done
    /\ call' = Called(call.fn, call.args, count_votes(call.args[1], call.args[2]), 0)
    /\ UNCHANGED <<streamVars, cred>>

\* WsCreateFeedbackMessage::new(room_id, user_id, value) for two votes
ApplySendFrame ==
    /\ call.fn = "WsCreateFeedbackMessage::new"
    /\ ~call.done
    /\ call' = Called(call.fn, call.args, <<SendFrame(call.args[1]), SendFrame(call.args[2])>>, 0)
    /\ UNCHANGED <<streamVars, cred>>

\* The text of an api_url as the sequence of its pieces: a piece is the text
\* "http", or a text that holds no "http" and forms none with its neighbours.
\* Url::to_string() writes the scheme in lower case and a path of "/" at least.
HostInputs == { <<"arsnova.example">>, <<"http", "-gateway.example">>, <<"my", "http", ".example">> }

PortInputs == { <<>>, <<":8080">> }

PathInputs == { <<"/">>, <<"/api">>, <<"/", "http", "/api">> }

\* the REST endpoints a Client is made for
ApiUrlInputs ==
    { [scheme |-> sch, host |-> h, port |-> p, path |-> pa] :
        sch \in {"http", "https"}, h \in HostInputs, p \in PortInputs, pa \in PathInputs }

\* the pieces of a scheme
SchemeText(scheme) == IF scheme = "https" THEN <<"http", "s">> ELSE <<scheme>>

\* api_url.into_url()..to_string(): the field api_url of the Client
to_string(u) == SchemeText(u.scheme) \o <<"://">> \o u.host \o u.port \o u.path

\* str::replace(from, to): every occurrence of from is replaced
replace(text, from, to) == [i \in 1..Len(text) |-> IF text[i] = from THEN to ELSE text[i]]

\* format!("{}/ws/websocket", self.api_url.replace("http", "ws"))
ws_url(api_url) == replace(api_url, "http", "ws") \o <<"/ws/websocket">>

\* the endpoint on_feedback_changed and register_feedback_receiver connect to
ApplyWsUrl ==
    /\ call.fn = "ws_url"
    /\ ~call.done
    /\ call' = Called(call.fn, call.args, ws_url(to_string(call.args[1])), 0)
    /\ UNCHANGED <<streamVars, cred>>

\* The applications to make.
FnInputs ==
    { ToCall("ws_url", <<u>>) : u \in ApiUrlInputs } \cup
    { ToCall("Decode", <<frame>>) : frame \in FrameInputs }
    \cup { ToCall("WsCreateFeedbackMessage::new", <<v, w>>) :
             v \in FeedbackValue, w \in FeedbackValue }
    \cup { ToCall("count_votes", <<from_values(<<a, b, c, d>>), overflow_checks>>) :
             a \in CountInputs, b \in CountInputs, c \in CountInputs, d \in CountInputs,
             overflow_checks \in BOOLEAN }
    \cup { ToCall("get_user_id", <<LoggedInWith(tok)>>) : tok \in TokenOptions }
    \cup { ToCall(fn, <<self, short_id, res>>) :
             fn \in {"get_room_info", "on_feedback_changed", "register_feedback_receiver"},
             self \in SelfInputs, short_id \in ShortIds, res \in RoomResponses }
    \cup { ToCall("get_feedback", <<self, short_id, res, survey>>) :
             self \in SelfInputs, short_id \in ShortIds, res \in RoomResponses,
             survey \in SurveyResponses }
    \cup { ToCall("get_room_stats", <<self, short_id, res, summary>>) :
             self \in SelfInputs, short_id \in ShortIds, res \in RoomResponses,
             summary \in SummaryResponses }

FnInit ==
    /\ Start(<<"none", "None">>, "two_tasks")
    /\ cred = NoClient
    /\ call \in FnInputs

FnNext ==
    \/ DecodeFrame
    \/ ApplyGetUserId
    \/ ApplyGetRoomInfo
    \/ ApplyGetFeedback
    \/ ApplyGetRoomStats
    \/ ApplyStreaming
    \/ ApplyCountVotes
    \/ ApplySendFrame
    \/ ApplyWsUrl

FnSpec == FnInit /\ [][FnNext]_vars

\* The scheduling of the loop: time passes; tokio's select! picks at random
\* among the branches that are ready, so a sleep that has run out again and
\* again is taken at some point; a suspended tx.send resumes once it can;
\* the consumer's task keeps receiving.
FairSpec ==
    /\ Spec
    /\ WF_vars(Tick)
    /\ SF_vars(KeepAlive)
    /\ WF_vars(SendResume)
    /\ WF_vars(SendFail)
    /\ WF_vars(ConsumerRecv)

----------------------------------------------------------------------------
\* Properties of the streaming session.

SetupSteps == <<"resolve", "open", "connect", "subscribe">>

SetupErrors(step) ==
    IF step = "resolve" THEN {"RoomNotFoundError", "ConnectionError", "ParserError"}
    ELSE {"ConnectionError"}

\* the values of the SEND frames written, in write order
SentValues == SeqMap(LAMBDA f : f.value, OfKind(wire, "SEND"))

\* a read that yielded Some(Err(_)) took place in this step
ReadErrorStep == sock = "failed" /\ sock' # "failed"

\* C1: in Streaming, for every handler shape, the read that yields an error
\* ends the loop: the call returns ConnectionError in that step, the
\* Sender<Feedback> is dropped, and from then on no frame is written and no
\* snapshot is handed over.
C1_ReadErrorEndsLoop ==
    [][ /\ ReadErrorStep =>
              /\ pc = "select"
              /\ pc' = "returned"
              /\ result' = "ConnectionError"
              /\ wire' = wire
              /\ handed' = handed
              /\ inCh' = inCh
              /\ ~inTxOpen'
        /\ pc = "returned" =>
              /\ pc' = "returned"
              /\ result' = result
              /\ wire' = wire
              /\ handed' = handed
              /\ Len(inCh') <= Len(inCh)
              /\ ~inTxOpen' ]_vars

C1_Witness ==
    /\ handler = "SenderReceiver"
    /\ exitCause = "read_error"
    /\ pc = "returned"
    /\ handed # <<>>
    /\ OfKind(wire, "SEND") # <<>>
    /\ OfKind(wire, "KEEPALIVE") # <<>>

\* C2 as claimed: once the close of the socket has shown up at the engine's
\* read, as an error or as the end of the stream, the call has returned and
\* dropped its sender, and a consumer that sees the end of its channel has
\* received every snapshot read.
C2_PeerCloseEndsStream ==
    /\ (HasInChannel /\ (exitCause = "read_error" \/ readDisabled)) =>
           (pc = "returned" /\ ~inTxOpen)
    /\ sawEnd => delivered = readLog

\* C3: the setup steps run in the order resolve, open, CONNECT, SUBSCRIBE; a
\* failed step is the last step performed, the call has returned that step's
\* error, nothing further was written, the loop was never entered and no
\* snapshot was handed over; the loop is entered only after four successes.
C3_SetupAbort ==
    /\ Len(setupLog) <= Len(SetupSteps)
    /\ \A i \in 1..Len(setupLog) :
          /\ setupLog[i][1] = SetupSteps[i]
          /\ setupLog[i][2] # "ok" =>
                /\ i = Len(setupLog)
                /\ setupLog[i][2] \in SetupErrors(SetupSteps[i])
                /\ pc = "returned"
                /\ result = setupLog[i][2]
                /\ Len(wire) = (IF i <= 2 THEN 0 ELSE i - 2)
                /\ (i <= 2) => sock = "unopened"
                /\ readLog = <<>>
                /\ handed = <<>>
                /\ inCh = <<>>
                /\ delivered = <<>>
                /\ OfKind(wire, "KEEPALIVE") = <<>>
                /\ OfKind(wire, "SEND") = <<>>
    /\ Streaming =>
          /\ Len(setupLog) = Len(SetupSteps)
          /\ \A i \in 1..Len(setupLog) : setupLog[i][2] = "ok"
    /\ Len(wire) >= 1 => wire[1] = ConnectFrame
    /\ Len(wire) >= 2 => wire[2] = SubscribeFrame

C3_Witness ==
    /\ pc = "returned"
    /\ setupLog = <<<<"resolve", "ok">>, <<"open", "ok">>, <<"connect", "ConnectionError">>>>
    /\ result = "ConnectionError"
    /\ wire = <<ConnectFrame>>

\* C4: in Streaming a failed write of a SEND or keep-alive frame leaves the
\* session in Streaming with nothing returned, and the read branch stays
\* available: with the socket open the next frame can still be read.
C4_WriteFailureNotFatal ==
    /\ [][ (pc = "select" /\ wire' # wire /\ lastWriteOk' = "failed") =>
              (pc' = "select" /\ result' = "none" /\ inTxOpen' = inTxOpen) ]_vars
    /\ [](  (pc = "select" /\ lastWriteOk = "failed" /\ op = "on_feedback_changed"
             /\ sock = "open") => ENABLED ReadFrame )

\* the engine is handing over a snapshot it read after a failed write in the loop
C4_Witness ==
    /\ pc = "send"
    /\ lastWriteOk = "failed"
    /\ Len(wire) > 2
    /\ wire[Len(wire)].kind \in {"SEND", "KEEPALIVE"}

\* C5 as claimed: with the two-way handler, once rx.recv() has shown the vote
\* channel closed, the call returns and no further frame is written.
C5_VoteChannelCloseEndsSession ==
    [][ (handler = "SenderReceiver" /\ voteDisabled) =>
            (pc' = "returned" /\ wire' = wire) ]_vars

\* C6 as claimed: with the two-way handler, the hand-over that finds the
\* consumer's receiver dropped ends the loop, and afterwards no frame is read
\* or written.
C6_InboundCloseEndsSession ==
    [][ /\ (handler = "SenderReceiver" /\ sendErrs' > sendErrs) => pc' = "returned"
        /\ (handler = "SenderReceiver" /\ sendErrs > 0) =>
              (readLog' = readLog /\ wire' = wire) ]_vars

\* C7: with the one-way handler, a hand-over that finds the receiver dropped
\* leaves the session in Streaming, and the session leaves Streaming only in
\* a step in which a read yielded an error.
C7_SenderSurvivesClosedChannel ==
    [][ handler = "Sender" =>
          /\ (sendErrs' > sendErrs) => pc' = "select"
          /\ (Streaming /\ ~Streaming') => (ReadErrorStep /\ pc' = "returned") ]_vars

\* after the consumer dropped the receiver two more snapshots were read and
\* a keep-alive was written
C7_Witness ==
    /\ handler = "Sender"
    /\ ~inRxOpen
    /\ pc = "select"
    /\ sendErrs >= 2
    /\ wire[Len(wire)] = KeepAliveFrame

\* C8: the snapshot channel never holds more than its capacity; the engine
\* holds at most one snapshot, and holds one exactly while its send is
\* suspended; a suspended send ends only when the buffer has room or the
\* receiver is gone; while the receiver lives every snapshot read is, in
\* order, received, buffered or in the engine's hand.
C8_Backpressure ==
    /\ [](  /\ Len(inCh) <= InCap
            /\ Len(pending) <= 1
            /\ (pc = "send") = (pending # <<>>)
            /\ (pc = "send" => HasInChannel)
            /\ (HasInChannel /\ inRxOpen) => delivered \o inCh \o pending = readLog )
    /\ [][ (pc = "send" /\ pc' # "send") => (Len(inCh) < InCap \/ ~inRxOpen) ]_vars
    /\ [][ (HasInChannel /\ Len(readLog') > Len(readLog) /\ inRxOpen /\ Len(inCh) = InCap) =>
              (pc' = "send" /\ pending' = <<readLog'[Len(readLog')]>> /\ inCh' = inCh) ]_vars

\* the buffer is full and the engine is suspended on the next snapshot
C8_Witness ==
    /\ pc = "send"
    /\ inRxOpen
    /\ Len(inCh) = InCap
    /\ pending = <<readLog[Len(readLog)]>>
    /\ Len(readLog) = InCap + 1
    /\ delivered = <<>>

C10_VoteOrder ==
    /\ IsPrefix(SentValues, SeqMap(into_u8, enq))
    /\ (OwnsVoteRx /\ outRxOpen) => SentValues \o SeqMap(into_u8, outCh) = SeqMap(into_u8, enq)
    /\ ~OwnsVoteRx => SentValues = <<>>

C10_Witness ==
    /\ handler = "SenderReceiver"
    /\ Len(SentValues) = 2
    /\ SentValues[1] # SentValues[2]
    /\ OfKind(wire, "KEEPALIVE") # <<>>
    /\ readLog # <<>>

----------------------------------------------------------------------------
----------------------------------------------------------------------------
\* C12: while the call is in the loop, a keep-alive frame is written at some
\* point, however often frames arrive or votes are submitted: from every
\* state of the loop with no keep-alive written yet, one is written or the
\* call returns.
C12_KeepAliveNotStarved ==
    [](Streaming /\ KeepAlivesWritten = 0 => <>(pc = "returned" \/ KeepAlivesWritten > 0))

----------------------------------------------------------------------------
\* C13: in the two-way session no state is reached in which the engine is
\* suspended in tx.send on the full snapshot channel, the program is suspended
\* in out_tx.send on the full vote channel, and no step of either can end the
\* suspension, whatever the shape of the program.
MutualSuspension ==
    /\ pc = "send" /\ inRxOpen /\ Len(inCh) = InCap
    /\ votePending # <<>> /\ outRxOpen /\ Len(outCh) = OutCap

C13_NoDeadlock ==
    ~(/\ MutualSuspension
      /\ ~ENABLED (ConsumerRecv \/ ConsumerClose \/ SendResume \/ SendFail
                     \/ CallerResume \/ CallerResumeErr))

----------------------------------------------------------------------------
----------------------------------------------------------------------------
\* C15: over every sequence of new, guest_login and logout the Client holds a
\* token exactly when it is LoggedIn; new gives a LoggedOut Client without
\* token; a token is set, and LoggedIn entered, only by a guest_login that
\* returns Ok, and the token is the one of the response; logout gives a
\* LoggedOut Client without token and with the same api_url, and sends no
\* request; a guest_login that returns Err leaves no LoggedIn Client.
C15_CredentialLifecycle ==
    /\ [](cred.state = "LoggedIn" <=> cred.token # <<>>)
    /\ [][(call'.fn = "new" /\ call'.result.tag = "Ok") =>
            cred'.state = "LoggedOut" /\ cred'.token = <<>>]_vars
    /\ [][((cred'.token # <<>> /\ cred'.token # cred.token)
              \/ (cred'.state = "LoggedIn" /\ cred.state # "LoggedIn")) =>
            /\ call'.fn = "guest_login"
            /\ call'.result.tag = "Ok"
            /\ cred.state = "LoggedOut"
            /\ cred'.token = call'.args[2].token
            /\ cred'.api_url = cred.api_url]_vars
    /\ [][call'.fn = "logout" =>
            /\ cred'.state = "LoggedOut"
            /\ cred'.token = <<>>
            /\ cred'.api_url = call'.args[1].api_url
            /\ call'.requests = 0]_vars
    /\ [][(call'.fn = "guest_login" /\ call'.result.tag = "Err") =>
            cred'.state # "LoggedIn" /\ cred'.token = <<>>]_vars

\* A Client that was logged in with a token has logged out.
C15_Witness ==
    /\ call.fn = "logout"
    /\ call.args[1].state = "LoggedIn"
    /\ call.args[1].token # <<>>
    /\ cred = [state |-> "LoggedOut", api_url |-> call.args[1].api_url, token |-> <<>>]

----------------------------------------------------------------------------
\* C16: called on a Client whose token is absent, each of get_user_id,
\* get_room_info, get_feedback, get_room_stats, on_feedback_changed and
\* register_feedback_receiver returns an Err with a ClientError: it does not
\* panic and does not go on.
TokenOps ==
    {"get_user_id", "get_room_info", "get_feedback", "get_room_stats",
     "on_feedback_changed", "register_feedback_receiver"}

----------------------------------------------------------------------------
\* C17: get_user_id returns Ok(sub) for a token of exactly three segments
\* whose second segment is base64 without padding of UTF-8 JSON with a member
\* sub, and for every other token an Err with a ParserError; it never panics.
C17_UserIdOfThreeSegments ==
    (call.done /\ call.fn = "get_user_id") =>
        LET parts == token_parts(call.args[1])
            wellFormed == /\ Len(parts) = 3
                          /\ parts[2].enc = "base64_no_pad"
                          /\ parts[2].utf8
                          /\ parts[2].json
                          /\ parts[2].sub # <<>>
        IN IF wellFormed
           THEN call.result = Ok(parts[2].sub[1])
           ELSE call.result.tag = "Err" /\ call.result.value[1] = "ParserError"

----------------------------------------------------------------------------
\* C18: get_room_info on a logged-in Client gives, for a response with status
\* 200 and a body that decodes, Ok with the id, short id and name of the
\* body; for status 200 and a body that does not decode, Err(ParserError);
\* for status 404, Err(RoomNotFoundError) with the short id passed in; for
\* every other status and for a request that failed, Err(ConnectionError).
C18_RoomResolution ==
    (call.done /\ call.fn = "get_room_info") =>
        LET short_id == call.args[2]
            res == call.args[3]
        IN CASE res.sent /\ res.status = 200 /\ res.body # <<>> ->
                  /\ call.result.tag = "Ok"
                  /\ call.result.value.id = res.body[1].id
                  /\ call.result.value.short_id = res.body[1].short_id
                  /\ call.result.value.name = res.body[1].name
             [] res.sent /\ res.status = 200 /\ res.body = <<>> ->
                  call.result.tag = "Err" /\ call.result.value[1] = "ParserError"
             [] res.sent /\ res.status = 404 ->
                  call.result = [tag |-> "Err", value |-> <<"RoomNotFoundError", short_id>>]
             [] OTHER ->
                  call.result = [tag |-> "Err", value |-> <<"ConnectionError">>]

\* The service answered 404 to a short id that is not the one of the body it
\* sent along, and the error carries the short id asked for.
C18_Witness ==
    /\ call.done
    /\ call.fn = "get_room_info"
    /\ call.args[2] = "87654321"
    /\ call.args[3] = [sent |-> TRUE, status |-> 404, body |-> <<Membership>>]
    /\ call.result = [tag |-> "Err", value |-> <<"RoomNotFoundError", "87654321">>]

----------------------------------------------------------------------------
\* C19: for every snapshot of four u16 counts, count_votes returns
\* very_good + good + bad + very_bad, also when that sum is above 65535: it
\* does not wrap and does not panic.
C19_CountVotesIsSum ==
    (call.done /\ call.fn = "count_votes") =>
        LET fb == call.args[1]
        IN call.result = [tag |-> "Ok", value |-> fb.very_good + fb.good + fb.bad + fb.very_bad]

----------------------------------------------------------------------------
\* C20: the SEND frame built for a vote carries as its value the ordinal of
\* the vote's rank, VeryGood/A = 0, Good/B = 1, Bad/C = 2, VeryBad/D = 3: two
\* votes get the same value exactly when they are spellings of one rank.
Rank(v) ==
    CASE v \in {"VeryGood", "A"} -> "very_good"
      [] v \in {"Good", "B"} -> "good"
      [] v \in {"Bad", "C"} -> "bad"
      [] v \in {"VeryBad", "D"} -> "very_bad"

Ordinal(rank) ==
    CASE rank = "very_good" -> 0
      [] rank = "good" -> 1
      [] rank = "bad" -> 2
      [] rank = "very_bad" -> 3

C20_VoteEncoding ==
    (call.done /\ call.fn = "WsCreateFeedbackMessage::new") =>
        LET v == call.args[1]
            w == call.args[2]
            fv == call.result[1]
            fw == call.result[2]
        IN /\ fv.kind = "SEND" /\ fw.kind = "SEND"
           /\ fv.value = Ordinal(Rank(v))
           /\ fw.value = Ordinal(Rank(w))
           /\ fv.value = fw.value <=> Rank(v) = Rank(w)

\* The frames for the votes D and VeryBad carry the same value, 3.
C20_Witness ==
    /\ call.done
    /\ call.fn = "WsCreateFeedbackMessage::new"
    /\ call.args = <<"D", "VeryBad">>
    /\ call.result[1].value = 3
    /\ call.result[2].value = 3

\* CONNECT and SUBSCRIBE were both written and both writes returned Ok
SetupWritten ==
    /\ Len(setupLog) = Len(SetupSteps)
    /\ setupLog[3] = <<"connect", "ok">>
    /\ setupLog[4] = <<"subscribe", "ok">>
    /\ Len(wire) >= 2

\* C21: on a socket, for on_feedback_changed and register_feedback_receiver
\* alike, the first frame written is CONNECT and the second is SUBSCRIBE for
\* the room the call resolved; each is written at most once, and exactly once
\* in Streaming; a SEND or keep-alive frame is written only after both were
\* written successfully, and no read of the socket can be or was acted on
\* before that.
C21_FrameOrder ==
    /\ op \in {"on_feedback_changed", "register_feedback_receiver"}
    /\ Len(wire) >= 1 => wire[1].kind = "CONNECT"
    /\ Len(wire) >= 2 => (wire[2].kind = "SUBSCRIBE" /\ wire[2].room = Membership.id)
    /\ Len(OfKind(wire, "CONNECT")) <= 1
    /\ Len(OfKind(wire, "SUBSCRIBE")) <= 1
    /\ Streaming => (Len(OfKind(wire, "CONNECT")) = 1 /\ Len(OfKind(wire, "SUBSCRIBE")) = 1)
    /\ \A i \in 1..Len(wire) :
          wire[i].kind \in {"SEND", "KEEPALIVE"} => (i > 2 /\ SetupWritten)
    /\ (ENABLED (ReadFrame \/ ReadError \/ ReadNone)) => SetupWritten
    /\ (readLog # <<>> \/ readDisabled \/ exitCause = "read_error") => SetupWritten

\* a socket on which votes and a keep-alive were written and frames were read
C21_Witness ==
    /\ op = "on_feedback_changed"
    /\ Len(wire) >= 5
    /\ wire[1] = ConnectFrame
    /\ wire[2] = SubscribeFrame
    /\ Len(OfKind(wire, "SEND")) >= 2
    /\ OfKind(wire, "KEEPALIVE") # <<>>
    /\ readLog # <<>>

\* C22: in a session run with the callback handler (Fn) or the one-way channel
\* handler (Sender), every frame written to the socket is CONNECT, SUBSCRIBE
\* or a keep-alive: no SEND frame is written, whatever votes the program has
\* put on its vote channel, and no vote is taken from that channel.
C22_OneWayWritesNoVotes ==
    handler \in {"Fn", "Sender"} =>
        /\ \A i \in 1..Len(wire) : wire[i].kind \in {"CONNECT", "SUBSCRIBE", "KEEPALIVE"}
        /\ OfKind(wire, "SEND") = <<>>
        /\ outCh = enq
        /\ ~ENABLED RecvVote

\* a one-way session in the loop, past a keep-alive and a snapshot, with
\* votes waiting on the program's vote channel
C22_Witness ==
    /\ handler \in {"Fn", "Sender"}
    /\ pc = "select"
    /\ Len(outCh) = MaxVotes
    /\ OfKind(wire, "KEEPALIVE") # <<>>
    /\ readLog # <<>>
    /\ Len(wire) = 3

----------------------------------------------------------------------------
\* C23 as claimed: the streaming endpoint is the REST endpoint with its
\* scheme swapped, http to ws and https to wss, and nothing else changed,
\* followed by /ws/websocket: host, port and path are those of the REST
\* endpoint, also when they contain the text "http".
C23_SchemeSwapOnly ==
    (call.done /\ call.fn = "ws_url") =>
        LET u == call.args[1]
        IN call.result =
              (IF u.scheme = "https" THEN <<"ws", "s">> ELSE <<"ws">>) \o <<"://">>
              \o u.host \o u.port \o u.path \o <<"/ws/websocket">>

----------------------------------------------------------------------------
\* C24: on_feedback_changed never returns Ok: the value of every return is a
\* ClientError; the call that was in Streaming and ended on a read error
\* returns ConnectionError, the value the call whose CONNECT write failed
\* returns, so the value does not tell a stream that ended from a setup that
\* failed.
C24_NeverOk ==
    op = "on_feedback_changed" =>
        /\ result # "Ok"
        /\ pc = "returned" <=> result # "none"
        /\ pc = "returned" => result \in {"ConnectionError", "RoomNotFoundError", "ParserError"}
        /\ exitCause = "read_error" =>
              (pc = "returned" /\ SetupWritten /\ result = "ConnectionError")
        /\ exitCause = "connect" =>
              (pc = "returned" /\ ~SetupWritten /\ result = "ConnectionError")
        /\ exitCause \in {"none", "resolve", "open", "connect", "subscribe", "read_error"}

\* a callback session that handed over snapshots and then returned on a read error
C24_Witness ==
    /\ op = "on_feedback_changed"
    /\ handler = "Fn"
    /\ pc = "returned"
    /\ exitCause = "read_error"
    /\ result = "ConnectionError"
    /\ Len(handed) = MaxReads

----------------------------------------------------------------------------
\* a step of the loop other than the end of a hand-over: a read of the
\* socket, a vote taken, a keep-alive written, the sleep running
LoopStep ==
    \/ ReadFrame
    \/ ReadError
    \/ ReadNone
    \/ RecvVote
    \/ RecvVoteNone
    \/ KeepAlive
    \/ Tick

\* C25: while tx.send(..).await is suspended on the full snapshot channel the
\* engine takes no other step: no read of the socket, no vote taken or
\* written, no keep-alive, for as long as the consumer does not make room or
\* drop its receiver; the step that ends the suspension is the end of the
\* hand-over (the snapshot is in the channel, or the send returned Err), it
\* writes nothing, and it leads to a new select! with all branches.
C25_SuspendedEngineIdle ==
    /\ [](pc = "send" =>
            /\ HasInChannel
            /\ pending # <<>>
            /\ ~ENABLED LoopStep)
    /\ [][ pc = "send" =>
             /\ wire' = wire
             /\ readLog' = readLog
             /\ IsPrefix(outCh, outCh')
             /\ sock' # sock => sock = "open"
             /\ (inRxOpen /\ Len(inCh) = InCap) => (pc' = "send" /\ pending' = pending)
             /\ pc' # "send" =>
                   /\ pc' = "select"
                   /\ pending' = <<>>
                   /\ \/ handed' = Append(handed, pending[1]) /\ inCh' = Append(inCh, pending[1])
                      \/ sendErrs' = sendErrs + 1 /\ handed' = handed
                   /\ ~readDisabled' /\ ~voteDisabled' /\ elapsed' = 0 ]_vars

\* the two-way engine suspended on the full snapshot channel while a vote
\* waits on the vote channel and the socket has more to read
C25_Witness ==
    /\ handler = "SenderReceiver"
    /\ pc = "send"
    /\ inRxOpen
    /\ Len(inCh) = InCap
    /\ outCh # <<>>
    /\ sock = "open"
    /\ OfKind(wire, "KEEPALIVE") # <<>>

----------------------------------------------------------------------------
\* every vote sender is dropped and the vote channel is drained
VoteChannelClosed == ~outTxOpen /\ outCh = <<>>

\* C26: register_feedback_receiver, once CONNECT and SUBSCRIBE were written,
\* never returns: it stays in its loop, where the sleep runs or the
\* keep-alive is due; it never reads the socket; no step taken in the loop,
\* the closing of the vote channel and a failed SEND or keep-alive write
\* included, ends the loop; once the vote channel is closed the only frames
\* it writes are keep-alives, each when the interval has run out.
C26_RegisterNeverReturns ==
    /\ [](op = "register_feedback_receiver" =>
            /\ SetupWritten => (pc = "select" /\ result = "none" /\ exitCause = "none")
            /\ pc = "returned" => exitCause \in {"resolve", "open", "connect", "subscribe"}
            /\ pc = "select" =>
                  (ENABLED Tick \/ ENABLED KeepAlive \/ KeepAlivesWritten >= MaxKeepAlives)
            /\ readLog = <<>>
            /\ sock \in {"unopened", "dropped"}
            /\ ~readDisabled
            /\ ~ENABLED (ReadFrame \/ ReadError \/ ReadNone))
    /\ [][ (op = "register_feedback_receiver" /\ pc = "select") =>
             /\ pc' = "select"
             /\ result' = "none"
             /\ outRxOpen'
             /\ (VoteChannelClosed /\ wire' # wire) =>
                   /\ wire' = Append(wire, KeepAliveFrame)
                   /\ elapsed = KeepAliveSecs
                   /\ elapsed' = 0 ]_vars

\* register_feedback_receiver in its loop: the votes were written, the vote
\* channel closed, and the keep-alive written after that failed
C26_Witness ==
    /\ op = "register_feedback_receiver"
    /\ pc = "select"
    /\ VoteChannelClosed
    /\ Len(OfKind(wire, "SEND")) = MaxVotes
    /\ wire[Len(wire)].kind = "KEEPALIVE"
    /\ lastWriteOk = "failed"

====
